---- MODULE Spec2Model ----
(***************************************************************************)
(* A model of the GBV MVP simulation: the response extractors of          *)
(* gbv-pilot-study/utils.py and the journey engine and runner of          *)
(* simulate_mvp.py (class MVPSimulator).                                   *)
(*                                                                         *)
(* Text is modelled as a sequence of lexemes.  A lexeme stands for the    *)
(* literal characters in its name: the markers "CHOICE:", "choice:",      *)
(* "REASONING:", "Rate:", "Explain:", "Answer:", the question numbers      *)
(* "1." .. "10.", the roster names, and otherwise single characters       *)
(* (" ", "\n", ".", letters, digits).  The regular expressions of         *)
(* utils.py are translated to scans over such sequences.                   *)
(***************************************************************************)
EXTENDS Integers, Sequences, FiniteSets, TLC

(***************************************************************************)
(* Python values handed to the extractors: a str (its lexemes), None, or   *)
(* a truthy non-string.  toks is what str(value) renders.                  *)
(***************************************************************************)
Str(t) == [type |-> "str", toks |-> t]

NoneValue == [type |-> "NoneType", toks |-> <<"None">>]

IntValue == [type |-> "int", toks |-> <<"7">>]

\* `not response`: None and the empty string are falsy.
Falsy(v) == v.type = "NoneType" \/ (v.type = "str" /\ v.toks = <<>>)

\* Mutant of InvalidResponse: the isinstance test is missing.
MutInvalidResponseFalsy(v) == Falsy(v)

\* `not response or not isinstance(response, str)`
InvalidResponse(v) == Falsy(v) \/ v.type # "str"

(***************************************************************************)
(* Character classes of the regular expressions.                           *)
(***************************************************************************)
\* \s
IsSpace(c) == c \in {" ", "\n"}

\* [A-D] under re.IGNORECASE
IsLabelAnyCase(c) == c \in {"A", "B", "C", "D", "a", "b", "c", "d"}

\* [A-D] without re.IGNORECASE
IsLabelUpper(c) == c \in {"A", "B", "C", "D"}

\* [\.\):\s]
IsLabelSeparator(c) == c \in {".", ")", ":", " ", "\n"}

\* \d
IsDigit(c) == c \in {"0", "1", "2", "3", "4", "5", "6", "7", "8", "9"}

\* CHOICE: under re.IGNORECASE
IsChoiceMarker(c) == c \in {"CHOICE:", "choice:"}

\* REASONING: under re.IGNORECASE
IsReasoningMarker(c) == c \in {"REASONING:", "reasoning:"}

\* The first character of a lexeme (a marker, a name and a question number
\* are several characters long).
FirstChar(c) ==
    CASE c = "CHOICE:" -> "C"
      [] c = "choice:" -> "c"
      [] c = "Alex Chen" -> "A"
      [] c = "ALEX CHEN" -> "A"
      [] c = "Answer:" -> "A"
      [] c = "10." -> "1"
      [] c = "1." -> "1"
      [] c = "2." -> "2"
      [] c = "3." -> "3"
      [] c = "4." -> "4"
      [] c = "5." -> "5"
      [] c = "6." -> "6"
      [] c = "7." -> "7"
      [] c = "8." -> "8"
      [] c = "9." -> "9"
      [] OTHER -> c

\* str.upper() of a one-letter label
Upper(c) ==
    CASE c = "a" -> "A"
      [] c = "b" -> "B"
      [] c = "c" -> "C"
      [] c = "d" -> "D"
      [] OTHER -> c

\* int() of a one-digit string
DigitValue(c) ==
    CASE c = "0" -> 0
      [] c = "1" -> 1
      [] c = "2" -> 2
      [] c = "3" -> 3
      [] c = "4" -> 4
      [] c = "5" -> 5
      [] c = "6" -> 6
      [] c = "7" -> 7
      [] c = "8" -> 8
      [] OTHER -> 9

(***************************************************************************)
(* Scanning helpers.                                                       *)
(***************************************************************************)
\* A greedy \s* starting at index i: the index of the first non-space at or
\* after i (Len(s) + 1 when only spaces follow).
RECURSIVE SkipSpaces(_, _)
SkipSpaces(s, i) ==
    IF i > Len(s) THEN i
    ELSE IF IsSpace(s[i]) THEN SkipSpaces(s, i + 1)
    ELSE i

\* str.strip()
RECURSIVE StripLeft(_)
StripLeft(s) ==
    IF s = <<>> THEN s
    ELSE IF IsSpace(Head(s)) THEN StripLeft(Tail(s))
    ELSE s

RECURSIVE StripRight(_)
StripRight(s) ==
    IF s = <<>> THEN s
    ELSE IF IsSpace(s[Len(s)]) THEN StripRight(SubSeq(s, 1, Len(s) - 1))
    ELSE s

Strip(s) == StripRight(StripLeft(s))

\* The least index >= i whose lexeme satisfies the marker test, 0 if none.
RECURSIVE FirstReasoningMarker(_, _)
FirstReasoningMarker(s, i) ==
    IF i > Len(s) THEN 0
    ELSE IF IsReasoningMarker(s[i]) THEN i
    ELSE FirstReasoningMarker(s, i + 1)

NoMatch == <<"<no match>">>

(***************************************************************************)
(* re.search(r'REASONING:\s*(.+?)$', response, IGNORECASE | DOTALL)        *)
(* followed by group(1).strip().  With DOTALL the lazy group reaches the   *)
(* end of the text, so the first marker matches iff a character follows    *)
(* it, and the stripped group is the stripped rest of the text.            *)
(***************************************************************************)
reasoning_match(s) ==
    LET i == FirstReasoningMarker(s, 1)
    IN  IF i = 0 \/ i = Len(s) THEN NoMatch
        ELSE Strip(SubSeq(s, i + 1, Len(s)))

(***************************************************************************)
(* parse_decision_response                                                 *)
(***************************************************************************)
\* re.search(r'CHOICE:\s*([A-D])', response, re.IGNORECASE): group(1) of
\* the leftmost match at or after index i, or NoMatch.
RECURSIVE choice_match(_, _)
choice_match(s, i) ==
    IF i > Len(s) THEN NoMatch
    ELSE IF IsChoiceMarker(s[i])
         THEN LET j == SkipSpaces(s, i + 1)
              IN  IF j <= Len(s) /\ IsLabelAnyCase(FirstChar(s[j]))
                  THEN <<FirstChar(s[j])>>
                  ELSE choice_match(s, i + 1)
         ELSE choice_match(s, i + 1)

\* Mutant of fallback: the pattern without its ^ anchor finds a label
\* anywhere in the text.
RECURSIVE MutFallbackUnanchored(_, _)
MutFallbackUnanchored(s, i) ==
    IF i >= Len(s) THEN NoMatch
    ELSE IF IsLabelUpper(s[i]) /\ IsLabelSeparator(s[i + 1]) THEN <<s[i]>>
    ELSE MutFallbackUnanchored(s, i + 1)

\* re.search(r'^([A-D])[\.\):\s]', response, re.MULTILINE)
RECURSIVE fallback(_, _)
fallback(s, i) ==
    IF i >= Len(s) THEN NoMatch
    ELSE IF /\ (i = 1 \/ s[i - 1] = "\n")
            /\ IsLabelUpper(s[i])
            /\ IsLabelSeparator(s[i + 1])
         THEN <<s[i]>>
         ELSE fallback(s, i + 1)

\* Mutant of DefaultDecisionChoice: no label at all when nothing matches,
\* which leaves the choice to the validation of simulate_decision_point.
MutDefaultDecisionChoice == ""

\* line 50: `else "A"`
DefaultDecisionChoice == "A"

parse_decision_response(response) ==
    IF InvalidResponse(response)
    THEN [choice |-> "A", reasoning |-> <<"Default choice due to invalid response">>]
    ELSE LET s  == response.toks
             cm == choice_match(s, 1)
             fb == fallback(s, 1)
             rm == reasoning_match(s)
         IN  [choice |->
                 IF cm # NoMatch THEN Upper(cm[1])
                 ELSE IF fb # NoMatch THEN Upper(fb[1])
                 ELSE DefaultDecisionChoice,
              reasoning |->
                 IF rm # NoMatch THEN rm ELSE <<"Default reasoning">>]

(***************************************************************************)
(* parse_character_selection                                               *)
(***************************************************************************)
\* The fixed roster the function loops over, in its order.
RosterNames == <<"Alex Chen", "Jordan Williams", "Sam Rivera">>

\* str.lower() of a lexeme that holds a name
Lower(c) ==
    CASE c = "Alex Chen" -> "alex chen"
      [] c = "ALEX CHEN" -> "alex chen"
      [] c = "Jordan Williams" -> "jordan williams"
      [] c = "Sam Rivera" -> "sam rivera"
      [] OTHER -> c

\* The lazy group (.+?) of the character pattern, started at j: it ends
\* before the first "\n" or REASONING, or at the end of the text.
RECURSIVE CharacterGroupEnd(_, _)
CharacterGroupEnd(s, e) ==
    IF e = Len(s) THEN e
    ELSE IF s[e + 1] = "\n" \/ IsReasoningMarker(s[e + 1]) THEN e
    ELSE CharacterGroupEnd(s, e + 1)

\* re.search(r'CHOICE:\s*(.+?)(?:\n|REASONING|$)', response, re.IGNORECASE):
\* group(1) of the leftmost match at or after i.  "." matches no newline.
\* When only spaces follow the marker, \s* gives one blank back to the group.
RECURSIVE character_choice_match(_, _)
character_choice_match(s, i) ==
    IF i > Len(s) THEN NoMatch
    ELSE IF IsChoiceMarker(s[i])
         THEN LET j == SkipSpaces(s, i + 1)
              IN  IF j <= Len(s) THEN SubSeq(s, j, CharacterGroupEnd(s, j))
                  ELSE IF \E k \in (i + 1)..Len(s) : s[k] = " " THEN <<" ">>
                  ELSE character_choice_match(s, i + 1)
         ELSE character_choice_match(s, i + 1)

\* char_name.lower() in choice.lower()
NameIn(name, choice) ==
    \E k \in 1..Len(choice) : Lower(choice[k]) = Lower(name)

\* for char_name in [...]: if char_name.lower() in choice.lower(): ... break
RECURSIVE MatchRoster(_, _)
MatchRoster(choice, n) ==
    IF n > Len(RosterNames) THEN choice
    ELSE IF NameIn(RosterNames[n], choice) THEN <<RosterNames[n]>>
    ELSE MatchRoster(choice, n + 1)

DefaultCharacter == <<"Alex Chen">>

parse_character_selection(response) ==
    IF InvalidResponse(response)
    THEN [character |-> <<"Alex Chen">>,
          reasoning |-> <<"Default selection due to invalid response">>]
    ELSE LET s  == response.toks
             cm == character_choice_match(s, 1)
             rm == reasoning_match(s)
         IN  [character |->
                 IF cm # NoMatch THEN MatchRoster(Strip(cm), 1)
                 ELSE DefaultCharacter,
              reasoning |->
                 IF rm # NoMatch THEN rm ELSE <<"Selected based on background">>]

(***************************************************************************)
(* parse_feedback_response                                                 *)
(***************************************************************************)
\* Rate: under re.IGNORECASE
IsRateMarker(c) == c \in {"Rate:", "rate:"}

\* a lexeme \d+\. : a question number with its dot
IsQuestionNumber(c) ==
    c \in {"1.", "2.", "3.", "4.", "5.", "6.", "7.", "8.", "9.", "10."}

\* re.findall(r'Rate:\s*(\d)', response, re.IGNORECASE) from index i on
RECURSIVE findall_ratings(_, _)
findall_ratings(s, i) ==
    IF i > Len(s) THEN <<>>
    ELSE IF IsRateMarker(s[i])
         THEN LET j == SkipSpaces(s, i + 1)
              IN  IF j <= Len(s) /\ IsDigit(FirstChar(s[j]))
                  THEN <<FirstChar(s[j])>> \o findall_ratings(s, j + 1)
                  ELSE findall_ratings(s, i + 1)
         ELSE findall_ratings(s, i + 1)

\* `if len(ratings) >= 5`
RatingsThreshold == 5

DefaultRating == 3

\* Mutant of extract_ratings: each rating is filled as far as matches were
\* found, instead of all five or none.
MutExtractRatingsPerField(ratings) ==
    [realistic |-> IF Len(ratings) >= 1 THEN DigitValue(ratings[1]) ELSE DefaultRating,
     felt_safe |-> IF Len(ratings) >= 2 THEN DigitValue(ratings[2]) ELSE DefaultRating,
     helpful_feedback |->
         IF Len(ratings) >= 3 THEN DigitValue(ratings[3]) ELSE DefaultRating,
     would_recommend |->
         IF Len(ratings) >= 4 THEN DigitValue(ratings[4]) ELSE DefaultRating,
     confidence |-> IF Len(ratings) >= 5 THEN DigitValue(ratings[5]) ELSE DefaultRating]

\* lines 86-91: all five ratings, or none
extract_ratings(ratings) ==
    IF Len(ratings) >= RatingsThreshold
    THEN [realistic |-> DigitValue(ratings[1]),
          felt_safe |-> DigitValue(ratings[2]),
          helpful_feedback |-> DigitValue(ratings[3]),
          would_recommend |-> DigitValue(ratings[4]),
          confidence |-> DigitValue(ratings[5])]
    ELSE [realistic |-> DefaultRating,
          felt_safe |-> DefaultRating,
          helpful_feedback |-> DefaultRating,
          would_recommend |-> DefaultRating,
          confidence |-> DefaultRating]

\* The least index >= i that holds lexeme c, 0 if none.
RECURSIVE FirstLexeme(_, _, _)
FirstLexeme(s, i, c) ==
    IF i > Len(s) THEN 0
    ELSE IF s[i] = c THEN i
    ELSE FirstLexeme(s, i + 1, c)

RECURSIVE SkipDigits(_, _)
SkipDigits(s, i) ==
    IF i > Len(s) THEN i
    ELSE IF IsDigit(s[i]) THEN SkipDigits(s, i + 1)
    ELSE i

\* the lookahead \n\d+\. at index k
QuestionAhead(s, k) ==
    /\ k <= Len(s)
    /\ s[k] = "\n"
    /\ LET n == SkipDigits(s, k + 1)
       IN  n <= Len(s) /\ IsQuestionNumber(s[n])

\* The lazy group (.+?) of a field pattern, started at j: it ends where
\* (?=\n\d+\.|$) first holds.
RECURSIVE FieldGroupEnd(_, _)
FieldGroupEnd(s, e) ==
    IF e = Len(s) THEN e
    ELSE IF QuestionAhead(s, e + 1) THEN e
    ELSE IF e + 1 = Len(s) /\ s[e + 1] = "\n" THEN e
    ELSE FieldGroupEnd(s, e + 1)

\* re.search(r'<q>.*?<marker>\s*(.+?)(?=\n\d+\.|$)', response,
\*           re.DOTALL | re.IGNORECASE), then group(1).strip().
\* q is the question number lexeme, marker is "Explain:" or "Answer:".
field_match(s, q, marker) ==
    LET p == FirstLexeme(s, 1, q)
        m == IF p = 0 THEN 0 ELSE FirstLexeme(s, p + 1, marker)
    IN  IF m = 0 \/ m = Len(s) THEN NoMatch
        ELSE LET j == SkipSpaces(s, m + 1)
             IN  IF j > Len(s) THEN <<>>
                 ELSE Strip(SubSeq(s, j, FieldGroupEnd(s, j)))

\* `if m: feedback[field] = m.group(1).strip()`, the default being ""
field_value(s, q, marker) ==
    LET m == field_match(s, q, marker)
    IN  IF m # NoMatch THEN m ELSE <<>>

parse_feedback_response(response) ==
    LET s == IF InvalidResponse(response) THEN <<>> ELSE response.toks
        r == extract_ratings(findall_ratings(s, 1))
    IN  [realistic |-> r.realistic,
         realistic_explain |-> field_value(s, "1.", "Explain:"),
         felt_safe |-> r.felt_safe,
         felt_safe_explain |-> field_value(s, "2.", "Explain:"),
         helpful_feedback |-> r.helpful_feedback,
         helpful_feedback_explain |-> field_value(s, "3.", "Explain:"),
         would_recommend |-> r.would_recommend,
         would_recommend_explain |-> field_value(s, "4.", "Explain:"),
         confidence |-> r.confidence,
         confidence_explain |-> field_value(s, "5.", "Explain:"),
         most_valuable_scenario |-> field_value(s, "6.", "Answer:"),
         likely_strategy |-> field_value(s, "7.", "Answer:"),
         what_worked |-> field_value(s, "8.", "Answer:"),
         improvements |-> field_value(s, "9.", "Answer:"),
         cultural_relevance |-> field_value(s, "10.", "Answer:"),
         raw_response |-> IF Falsy(response) THEN <<>> ELSE response.toks]

(***************************************************************************)
(* Exceptions in the extractors.  The operations of utils.py that can      *)
(* raise: re.search and re.findall on a value that is no str (TypeError),  *)
(* int() of a string that is no number (ValueError), and an index past the *)
(* end of the list of ratings (IndexError).  m.group(1) is only reached    *)
(* under `if m` or `if m else`.                                            *)
(***************************************************************************)
re_raises(v) == v.type # "str"

int_raises(c) == ~IsDigit(c)

\* parse_character_selection: lines 12-13 return before lines 16-17 search
parse_character_selection_raises(response) ==
    IF InvalidResponse(response) THEN FALSE ELSE re_raises(response)

\* parse_decision_response: lines 38-39 return before lines 42-49 search
parse_decision_response_raises(response) ==
    IF InvalidResponse(response) THEN FALSE ELSE re_raises(response)

\* parse_feedback_response: lines 79-80 return before line 84 searches;
\* lines 87-91 index and convert the first five ratings
parse_feedback_response_raises(response) ==
    IF InvalidResponse(response) THEN FALSE
    ELSE \/ re_raises(response)
         \/ LET ratings == findall_ratings(response.toks, 1)
            IN  /\ Len(ratings) >= RatingsThreshold
                /\ \E k \in 1..5 : k > Len(ratings) \/ int_raises(ratings[k])

\* the outcome of a call that raised
Raised == [raised |-> TRUE]

(***************************************************************************)
(* config.py                                                               *)
(***************************************************************************)
SKILLS ==
    <<"warning_signs", "direct_intervention", "distraction",
      "support_survivor", "know_resources">>

SkillSet == {SKILLS[k] : k \in 1..Len(SKILLS)}

(***************************************************************************)
(* The scenario catalog, self.scenarios_data["scenarios"], read by         *)
(* __init__ from scenarios_map.json.  The file is input data: this catalog *)
(* is not empty (as is every scenario), has two scenarios, a decision point that offers all of A..D, two that   *)
(* offer only A and B, an option without skills, and an option whose       *)
(* second skill-tag is not one of SKILLS.                                  *)
(***************************************************************************)
Option(l, t, sk, f) == [label |-> l, text |-> t, skills |-> sk, feedback |-> f]

Catalog ==
    << [id |-> 1, name |-> "Party Observation", context |-> "ctx1",
        decision_points |->
          << [id |-> "s1_d1", prompt |-> "p11",
              options |->
                << Option("A", "t11A", <<"warning_signs">>, "f11A"),
                   Option("B", "t11B", <<>>, "f11B") >>],
             [id |-> "s1_d2", prompt |-> "p12",
              options |->
                << Option("A", "t12A", <<"direct_intervention">>, "f12A"),
                   Option("B", "t12B", <<"distraction">>, "f12B"),
                   Option("C", "t12C", <<"support_survivor">>, "f12C"),
                   Option("D", "t12D", <<"warning_signs", "distraction">>, "f12D") >>] >>],
       [id |-> 2, name |-> "Friend Disclosure", context |-> "ctx2",
        decision_points |->
          << [id |-> "s2_d1", prompt |-> "p21",
              options |->
                << Option("A", "t21A", <<"support_survivor">>, "f21A"),
                   Option("B", "t21B", <<"know_resources", "empathy">>, "f21B") >>] >>] >>

\* every decision point of the catalog
CatalogDecisionPoints ==
    UNION { {Catalog[a].decision_points[b] : b \in 1..Len(Catalog[a].decision_points)}
            : a \in 1..Len(Catalog) }

\* list(decision_point["options"].keys()), in the mapping's order
OptionLabels(decision_point) ==
    [k \in 1..Len(decision_point.options) |-> decision_point.options[k].label]

\* Mutant of HasOption: the label is checked against the alphabet A..D the
\* prompt names, not against the decision point's own options.
MutHasOptionAlphabet(decision_point, label) == label \in {"A", "B", "C", "D"}

\* `choice in decision_point["options"]`
HasOption(decision_point, label) ==
    \E k \in 1..Len(decision_point.options) : decision_point.options[k].label = label

\* decision_point["options"][label]; a label that is no key raises KeyError,
\* which the validation of lines 151-153 rules out.
OptionOf(decision_point, label) ==
    IF \E k \in 1..Len(decision_point.options) :
            decision_point.options[k].label = label
    THEN decision_point.options[
            CHOOSE k \in 1..Len(decision_point.options) :
                decision_point.options[k].label = label]
    ELSE Option(label, "<KeyError>", <<>>, "<KeyError>")

(***************************************************************************)
(* MVPSimulator._extract_talk_text: the contents of the TALK actions,      *)
(* joined by single blanks.                                                *)
(***************************************************************************)
RECURSIVE TalkTexts(_)
TalkTexts(actions) ==
    IF actions = <<>> THEN <<>>
    ELSE IF Head(actions).type = "TALK" /\ Head(actions).content # <<>>
         THEN <<Head(actions).content>> \o TalkTexts(Tail(actions))
         ELSE TalkTexts(Tail(actions))

RECURSIVE JoinWithBlank(_)
JoinWithBlank(texts) ==
    IF texts = <<>> THEN <<>>
    ELSE IF Len(texts) = 1 THEN texts[1]
    ELSE texts[1] \o <<" ">> \o JoinWithBlank(Tail(texts))

extract_talk_text(actions) == Str(JoinWithBlank(TalkTexts(actions)))

(***************************************************************************)
(* MVPSimulator.simulate_decision_point, lines 150-161: validate the       *)
(* extracted choice and build the decision record.  pick is the index      *)
(* random.choice draws.                                                    *)
(***************************************************************************)
ParsingErrorMarker == <<"Default choice due to parsing error">>

\* Mutant of validate_choice: line 153 is missing, a substituted choice
\* keeps the extracted reasoning.
MutValidateKeepsReasoning(extracted, decision_point, pick) ==
    LET choice == IF HasOption(decision_point, extracted.choice)
                  THEN extracted.choice
                  ELSE OptionLabels(decision_point)[pick]
    IN  [decision_id |-> decision_point.id,
         choice |-> choice,
         choice_text |-> OptionOf(decision_point, choice).text,
         reasoning |-> extracted.reasoning,
         feedback_received |-> OptionOf(decision_point, choice).feedback]

\* Mutant of validate_choice: the text and the feedback are looked up with
\* the extracted label, not with the substituted one.
MutValidateLooksUpExtracted(extracted, decision_point, pick) ==
    LET valid     == HasOption(decision_point, extracted.choice)
        choice    == IF valid THEN extracted.choice
                     ELSE OptionLabels(decision_point)[pick]
        reasoning == IF valid THEN extracted.reasoning ELSE ParsingErrorMarker
    IN  [decision_id |-> decision_point.id,
         choice |-> choice,
         choice_text |-> OptionOf(decision_point, extracted.choice).text,
         reasoning |-> reasoning,
         feedback_received |-> OptionOf(decision_point, extracted.choice).feedback]

validate_choice(extracted, decision_point, pick) ==
    LET valid     == HasOption(decision_point, extracted.choice)
        choice    == IF valid THEN extracted.choice
                     ELSE OptionLabels(decision_point)[pick]
        reasoning == IF valid THEN extracted.reasoning ELSE ParsingErrorMarker
    IN  [decision_id |-> decision_point.id,
         choice |-> choice,
         choice_text |-> OptionOf(decision_point, choice).text,
         reasoning |-> reasoning,
         feedback_received |-> OptionOf(decision_point, choice).feedback]

(***************************************************************************)
(* MVPSimulator.simulate_scenario, lines 106-111: the skill loop of one    *)
(* decision.  st is [skills, earned, raised]; an unknown skill raises      *)
(* KeyError at `current_skills[skill] += 1` and ends the loop.             *)
(***************************************************************************)
\* Mutant of update_skills: line 109 counts down.
RECURSIVE MutUpdateSkillsCountsDown(_, _)
MutUpdateSkillsCountsDown(st, tags) ==
    IF tags = <<>> \/ st.raised THEN st
    ELSE LET skill == Head(tags)
         IN  IF skill \notin DOMAIN st.skills
             THEN [st EXCEPT !.raised = TRUE]
             ELSE MutUpdateSkillsCountsDown(
                    [skills |-> [st.skills EXCEPT ![skill] = @ - 1],
                     earned |-> IF \E k \in 1..Len(st.earned) : st.earned[k] = skill
                                THEN st.earned
                                ELSE Append(st.earned, skill),
                     raised |-> FALSE],
                    Tail(tags))

\* Mutant of update_skills: a skill that is no key of current_skills is
\* added with count 1 instead of raising KeyError.
RECURSIVE MutUpdateSkillsAddsKey(_, _)
MutUpdateSkillsAddsKey(st, tags) ==
    IF tags = <<>> THEN st
    ELSE LET skill == Head(tags)
         IN  MutUpdateSkillsAddsKey(
                [skills |-> [x \in DOMAIN st.skills \cup {skill} |->
                                IF x \in DOMAIN st.skills
                                THEN st.skills[x] + (IF x = skill THEN 1 ELSE 0)
                                ELSE 1],
                 earned |-> IF \E k \in 1..Len(st.earned) : st.earned[k] = skill
                            THEN st.earned
                            ELSE Append(st.earned, skill),
                 raised |-> FALSE],
                Tail(tags))

RECURSIVE update_skills(_, _)
update_skills(st, tags) ==
    IF tags = <<>> \/ st.raised THEN st
    ELSE LET skill == Head(tags)
         IN  IF skill \notin DOMAIN st.skills
             THEN [st EXCEPT !.raised = TRUE]
             ELSE update_skills(
                    [skills |-> [st.skills EXCEPT ![skill] = @ + 1],
                     earned |-> IF \E k \in 1..Len(st.earned) : st.earned[k] = skill
                                THEN st.earned
                                ELSE Append(st.earned, skill),
                     raised |-> FALSE],
                    Tail(tags))

(***************************************************************************)
(* The external agent: persona.listen_and_act(prompt, return_actions=True) *)
(* returns a list of actions or raises.                                    *)
(***************************************************************************)
Talk(t) == [type |-> "TALK", content |-> t]

Think == [type |-> "THINK", content |-> <<"x">>]

Done == [type |-> "DONE", content |-> <<>>]

Returns(actions) == [kind |-> "return", actions |-> actions, error |-> ""]

Raises(e) == [kind |-> "raise", actions |-> <<>>, error |-> e]

CharacterOutcomes ==
    { Returns(<<Think,
                Talk(<<"CHOICE:", " ", "Sam Rivera", "\n", "REASONING:", " ", "x">>),
                Done>>),
      Raises("agent failure") }

\* The reply names D, which only the second decision point offers.
DecisionOutcomes ==
    { Returns(<<Talk(<<"CHOICE:", " ", "D">>), Done>>),
      Raises("agent failure") }

FeedbackOutcomes ==
    { Returns(<<Talk(<<"1.", "Rate:", " ", "4", "Explain:", " ", "x", "\n",
                      "2.", "Rate:", "5", "\n", "3.", "Rate:", "2", "\n",
                      "4.", "Rate:", "4", "\n", "5.", "Rate:", "1">>),
                Talk(<<"6.", "Answer:", " ", "x">>),
                Done>>),
      Raises("agent failure") }

\* random.randint(180, 420), line 92: the range of a scenario's duration
DurationRange == 180..420

\* random.randint(180, 420): the two ends of the range
DurationDraws == {180, 420}

(***************************************************************************)
(* Bounds.                                                                 *)
(***************************************************************************)
\* the longest roster handed to run_simulation
MaxRoster == 2

\* the most fragments a decision reply is put together from
MaxFragments == 3

\* the most fragments a survey reply is put together from
MaxRateFragments == 6

\* the most calls of run_simulation on one simulator
MaxCalls == 2

\* the longest roster handed to a later call of run_simulation
MaxLaterRoster == 1

(***************************************************************************)
(* State.                                                                  *)
(***************************************************************************)
VARIABLES
    personas,         \* run_simulation: the roster (persona names)
    idx,              \* run_simulation: index of the participant in the loop
    pc,               \* position of the control in run_simulation
    journey,          \* simulate_full_journey: the journey dict
    scenario_result,  \* simulate_scenario: the local scenario_result dict
    si,               \* simulate_full_journey: index of the scenario
    di,               \* simulate_scenario: index of the decision point
    results,          \* self.results
    results_file,     \* the contents of RESULTS_FILE
    file_state,       \* RESULTS_FILE: "absent", "truncated" (opened for
                      \* writing, not yet a whole document) or "complete"
    rng,              \* the values drawn from `random` since random.seed
    scenarios_data,   \* self.scenarios_data
    history,          \* observer: per journey, whether it raised and the
                      \* decision records simulate_decision_point returned;
                      \* per call of run_simulation, the roster, the kinds
                      \* of the agent's replies and the part of rng it drew;
                      \* the prompts the journey has issued to the agent;
                      \* the run of an earlier simulator with the same seed
    dec_response,     \* simulate_decision_point: response
    dec_point,        \* simulate_decision_point: decision_point
    dec_extracted,    \* simulate_decision_point: (choice, reasoning) of line 148
    dec_result,       \* simulate_decision_point: the returned dict
    dec_pc,           \* position in simulate_decision_point
    fb_response,      \* parse_feedback_response: response
    fb_feedback,      \* parse_feedback_response: the returned dict
    fb_pc,            \* position in parse_feedback_response
    ex_fn,            \* the extractor of utils.py that is called
    ex_response,      \* its argument
    ex_result,        \* what the call returned, or Raised
    ex_pc,            \* position of the call
    an_results,       \* SimulationAnalyzer: self.results
    an_pc             \* position in SimulationAnalyzer.__init__

runVars ==
    <<personas, idx, pc, journey, scenario_result, si, di, results, results_file,
      file_state, rng, scenarios_data, history>>

decVars == <<dec_response, dec_point, dec_extracted, dec_result, dec_pc>>

fbVars == <<fb_response, fb_feedback, fb_pc>>

exVars == <<ex_fn, ex_response, ex_result, ex_pc>>

anVars == <<an_results, an_pc>>

vars == <<runVars, decVars, fbVars, exVars, anVars>>

\* Python's None, and an empty dict
None == [none |-> TRUE]

EmptyDict == [empty |-> TRUE]

NoError == ""

\* self.scenarios_data as json.load returned it (lines 28-29): the scenarios
\* of the file, and the keys the file leaves out, each given by the place of
\* the dict that lacks it.
Loaded(scenarios, missing) == [scenarios |-> scenarios, missing |-> missing]

MissingKey(s, d, o, key) ==
    [scenario |-> s, decision |-> d, option |-> o, key |-> key]

\* subscripting the dict at that place with the key raises KeyError
KeyErrorAt(data, s, d, o, key) == MissingKey(s, d, o, key) \in data.missing

\* __init__(scenarios_file) has run (lines 26-32): the catalog is loaded,
\* self.results = [], the generator is seeded; no run has been observed.
SimulatorInit(data) ==
    /\ scenarios_data = data
    /\ personas = <<>>
    /\ idx = 0
    /\ pc = "idle"
    /\ journey = None
    /\ scenario_result = None
    /\ si = 0
    /\ di = 0
    /\ results = <<>>
    /\ results_file = None
    /\ file_state = "absent"
    /\ rng = <<>>
    /\ history = [raised |-> FALSE, decisions |-> <<>>, log |-> <<>>,
                  replies |-> <<>>, from |-> 0, calls |-> <<>>,
                  prompts |-> <<>>, jfrom |-> 0, prev |-> None]

RunInit == SimulatorInit(Loaded(Catalog, {}))

DecIdle ==
    /\ dec_response = None
    /\ dec_point = None
    /\ dec_extracted = None
    /\ dec_result = None
    /\ dec_pc = "off"

FbIdle ==
    /\ fb_response = None
    /\ fb_feedback = None
    /\ fb_pc = "off"

ExIdle ==
    /\ ex_fn = "none"
    /\ ex_response = None
    /\ ex_result = None
    /\ ex_pc = "off"

AnIdle ==
    /\ an_results = None
    /\ an_pc = "off"

(***************************************************************************)
(* Python values and JSON documents.  A Python value carries its type; a   *)
(* dict is the sequence of its items, in insertion order, each a pair of   *)
(* key and value.  A JSON document is a tree of objects (sequences of      *)
(* members, each a pair of a string and a document), arrays, strings,      *)
(* numbers and null.                                                       *)
(***************************************************************************)
PyStr(v) == [py |-> "str", v |-> v]

PyInt(n) == [py |-> "int", v |-> n]

PyNone == [py |-> "None", v |-> 0]

PyList(vs) == [py |-> "list", v |-> vs]

PyTuple(vs) == [py |-> "tuple", v |-> vs]

PyDict(items) == [py |-> "dict", v |-> items]

JString(v) == [json |-> "string", v |-> v]

JNumber(n) == [json |-> "number", v |-> n]

JNull == [json |-> "null", v |-> 0]

JArray(vs) == [json |-> "array", v |-> vs]

JObject(members) == [json |-> "object", v |-> members]

\* json.dump of a dict key: a str is written as it is, an int as its
\* digits, None as "null"
json_key(k) ==
    IF k.py = "str" THEN k.v
    ELSE IF k.py = "int" THEN ToString(k.v)
    ELSE "null"

\* json.dump(value, f): dict -> object, list and tuple -> array,
\* str -> string, int -> number, None -> null.  (The value is bound to x
\* once, so that it is evaluated once at each level.)
RECURSIVE json_dump(_)
json_dump(value) ==
    CHOOSE doc \in
        { IF x.py = "dict"
          THEN JObject([k \in 1..Len(x.v) |->
                          <<json_key(x.v[k][1]), json_dump(x.v[k][2])>>])
          ELSE IF x.py \in {"list", "tuple"}
          THEN JArray([k \in 1..Len(x.v) |-> json_dump(x.v[k])])
          ELSE IF x.py = "str" THEN JString(x.v)
          ELSE IF x.py = "int" THEN JNumber(x.v)
          ELSE JNull : x \in {value} } : TRUE

\* the members of an object as the decoder keeps them: of two members with
\* the same name the later one's value stays, at the place of the first
RECURSIVE dict_items(_, _)
dict_items(members, items) ==
    IF members = <<>> THEN items
    ELSE LET name == Head(members)[1]
             val  == Head(members)[2]
         IN  IF \E k \in 1..Len(items) : items[k][1] = PyStr(name)
             THEN dict_items(Tail(members),
                    [k \in 1..Len(items) |->
                        IF items[k][1] = PyStr(name) THEN <<PyStr(name), val>>
                        ELSE items[k]])
             ELSE dict_items(Tail(members), Append(items, <<PyStr(name), val>>))

\* json.load(f): object -> dict with str keys, array -> list,
\* string -> str, number -> int, null -> None
RECURSIVE json_load(_)
json_load(doc) ==
    CHOOSE value \in
        { IF x.json = "object"
          THEN PyDict(dict_items([k \in 1..Len(x.v) |->
                                     <<x.v[k][1], json_load(x.v[k][2])>>], <<>>))
          ELSE IF x.json = "array"
          THEN PyList([k \in 1..Len(x.v) |-> json_load(x.v[k])])
          ELSE IF x.json = "string" THEN PyStr(x.v)
          ELSE IF x.json = "number" THEN PyInt(x.v)
          ELSE PyNone : x \in {doc} } : TRUE

(***************************************************************************)
(* The Python values the simulator builds, by the statements that build    *)
(* them.  Fields that hold clock readings and the traceback text are       *)
(* strings the model leaves out.                                           *)
(***************************************************************************)
\* simulate_decision_point, lines 155-161: the returned dict
PyDecision(d) ==
    PyDict(<< <<PyStr("decision_id"), PyStr(d.decision_id)>>,
              <<PyStr("choice"), PyStr(d.choice)>>,
              <<PyStr("choice_text"), PyStr(d.choice_text)>>,
              <<PyStr("reasoning"), PyStr(d.reasoning)>>,
              <<PyStr("feedback_received"), PyStr(d.feedback_received)>> >>)

\* simulate_scenario, lines 87-93, 104 and 111: scenario_result
PyScenario(sc) ==
    PyDict(<< <<PyStr("scenario_id"), PyInt(sc.scenario_id)>>,
              <<PyStr("scenario_name"), PyStr(sc.scenario_name)>>,
              <<PyStr("decisions"),
                PyList([k \in 1..Len(sc.decisions) |-> PyDecision(sc.decisions[k])])>>,
              <<PyStr("skills_earned"),
                PyList([k \in 1..Len(sc.skills_earned) |-> PyStr(sc.skills_earned[k])])>>,
              <<PyStr("time_spent_seconds"), PyInt(sc.time_spent_seconds)>> >>)

\* Mutant of PyCharacterSelection: the pair parse_character_selection
\* returned is stored as it is, a tuple.
MutPyCharacterSelectionTuple(c) ==
    IF c = EmptyDict THEN PyDict(<<>>)
    ELSE PyTuple(<<PyStr(c.character_selected), PyStr(c.reasoning)>>)

\* simulate_character_selection, lines 62-66, or the {} of line 255
PyCharacterSelection(c) ==
    IF c = EmptyDict THEN PyDict(<<>>)
    ELSE PyDict(<< <<PyStr("character_selected"), PyStr(c.character_selected)>>,
                   <<PyStr("reasoning"), PyStr(c.reasoning)>> >>)

\* parse_feedback_response, utils.py lines 59-76, or the {} of line 259
PyFeedback(f) ==
    IF f = EmptyDict THEN PyDict(<<>>)
    ELSE PyDict(<< <<PyStr("realistic"), PyInt(f.realistic)>>,
                   <<PyStr("realistic_explain"), PyStr(f.realistic_explain)>>,
                   <<PyStr("felt_safe"), PyInt(f.felt_safe)>>,
                   <<PyStr("felt_safe_explain"), PyStr(f.felt_safe_explain)>>,
                   <<PyStr("helpful_feedback"), PyInt(f.helpful_feedback)>>,
                   <<PyStr("helpful_feedback_explain"), PyStr(f.helpful_feedback_explain)>>,
                   <<PyStr("would_recommend"), PyInt(f.would_recommend)>>,
                   <<PyStr("would_recommend_explain"), PyStr(f.would_recommend_explain)>>,
                   <<PyStr("confidence"), PyInt(f.confidence)>>,
                   <<PyStr("confidence_explain"), PyStr(f.confidence_explain)>>,
                   <<PyStr("most_valuable_scenario"), PyStr(f.most_valuable_scenario)>>,
                   <<PyStr("likely_strategy"), PyStr(f.likely_strategy)>>,
                   <<PyStr("what_worked"), PyStr(f.what_worked)>>,
                   <<PyStr("improvements"), PyStr(f.improvements)>>,
                   <<PyStr("cultural_relevance"), PyStr(f.cultural_relevance)>>,
                   <<PyStr("raw_response"), PyStr(f.raw_response)>> >>)

\* simulate_full_journey, line 258: {skill: 0 for skill in SKILLS}, counted up
PyFinalSkills(fs) ==
    PyDict([k \in 1..Len(SKILLS) |-> <<PyStr(SKILLS[k]), PyInt(fs[SKILLS[k]])>>])

\* simulate_full_journey, lines 252-261 and 294: the journey dict
PyJourney(j) ==
    PyDict(<< <<PyStr("persona_id"), PyStr(j.persona_id)>>,
              <<PyStr("character_selection"), PyCharacterSelection(j.character_selection)>>,
              <<PyStr("scenarios"),
                PyList([k \in 1..Len(j.scenarios) |-> PyScenario(j.scenarios[k])])>>,
              <<PyStr("final_skills"), PyFinalSkills(j.final_skills)>>,
              <<PyStr("feedback"), PyFeedback(j.feedback)>>,
              <<PyStr("completion_status"), PyStr(j.completion_status)>> >>
           \o IF j.completion_status = "error"
              THEN << <<PyStr("error"), PyStr(j.error)>> >>
              ELSE <<>>)

\* self.results, the list of the journey dicts
PyResults(rs) == PyList([k \in 1..Len(rs) |-> PyJourney(rs[k])])

(***************************************************************************)
(* MVPSimulator.run_simulation and simulate_full_journey, step by step.    *)
(***************************************************************************)
\* __init__ has run: self.results = [], the catalog is loaded.
Init == RunInit /\ DecIdle /\ FbIdle /\ ExIdle /\ AnIdle

\* lines 252-261: the journey dict at the start of a journey
NewJourney(persona) ==
    [persona_id |-> persona,
     character_selection |-> EmptyDict,
     scenarios |-> <<>>,
     final_skills |-> [s \in SkillSet |-> 0],
     feedback |-> EmptyDict,
     completion_status |-> "incomplete",
     error |-> NoError]

\* Mutant of HandleException: the except clause records the error and
\* leaves the status as it was.
MutHandleExceptionKeepsStatus(j, e) == [j EXCEPT !.error = e]

\* Mutant of HandleException: line 294 is missing, the except clause sets
\* the status and records no error.
MutHandleExceptionDropsError(j, e) == [j EXCEPT !.completion_status = "error"]

\* lines 288-295: the except clause
HandleException(j, e) ==
    [j EXCEPT !.completion_status = "error", !.error = e]

\* run_simulation is called with a roster of n personas (lines 299-311).
RunSimulation ==
    /\ pc = "idle"
    /\ \E n \in 0..MaxRoster :
          personas' = [k \in 1..n |-> k]
    /\ idx' = 1
    /\ pc' = "loop"
    /\ history' = [history EXCEPT !.replies = <<>>, !.from = Len(rng)]
    /\ UNCHANGED <<journey, scenario_result, si, di, results, results_file,
                   file_state, rng, scenarios_data>>
    /\ UNCHANGED <<decVars, fbVars, exVars, anVars>>

\* random.seed(RANDOM_SEED), line 32: the generator's stream is a function
\* of the seed.  When an earlier simulator with the same seed drew a value
\* of the same kind (a duration, a substituted choice) at this place of the
\* stream, the draw gives that value again.
SeedAllows(v) ==
    IF history.prev = None THEN TRUE
    ELSE LET p == Len(rng) + 1
         IN  IF p > Len(history.prev.stream) THEN TRUE
             ELSE IF history.prev.stream[p] \in DurationRange <=> v \in DurationRange
                  THEN v = history.prev.stream[p]
                  ELSE TRUE

\* lines 311-313 and 252-261: the loop takes the next persona and
\* simulate_full_journey builds its journey dict.
BeginJourney ==
    /\ pc = "loop"
    /\ idx <= Len(personas)
    /\ journey' = NewJourney(personas[idx])
    /\ pc' = "character"
    /\ history' = [history EXCEPT !.raised = FALSE, !.decisions = <<>>,
                                  !.prompts = <<>>,
                                  !.jfrom = Len(history.replies)]
    /\ UNCHANGED <<personas, idx, scenario_result, si, di, results, results_file,
                   file_state, rng, scenarios_data>>
    /\ UNCHANGED <<decVars, fbVars, exVars, anVars>>

\* lines 264-266 with simulate_character_selection (lines 58-66)
CharacterSelection ==
    /\ pc = "character"
    /\ \E o \in CharacterOutcomes :
          IF o.kind = "raise"
          THEN /\ journey' = HandleException(journey, o.error)
               /\ pc' = "return"
               /\ si' = si
               /\ history' = [history EXCEPT !.raised = TRUE,
                                             !.replies = Append(@, o.kind),
                                             !.prompts = Append(@, "character")]
          ELSE LET sel == parse_character_selection(extract_talk_text(o.actions))
               IN  /\ journey' = [journey EXCEPT !.character_selection =
                                     [character_selected |-> sel.character,
                                      reasoning |-> sel.reasoning]]
                   /\ si' = 1
                   /\ pc' = "scenario"
                   /\ history' = [history EXCEPT
                                     !.replies = Append(@, o.kind),
                                     !.prompts = Append(@, "character")]
    /\ UNCHANGED <<personas, idx, scenario_result, di, results, results_file,
                   file_state, rng, scenarios_data>>
    /\ UNCHANGED <<decVars, fbVars, exVars, anVars>>

\* lines 269-271 and 87-96: simulate_scenario is entered, draws the
\* scenario's duration while it builds scenario_result, and reaches the loop
\* over scenario_data["decision_points"].
BeginScenario ==
    /\ pc = "scenario"
    /\ \E t \in DurationDraws :
          /\ SeedAllows(t)
          /\ rng' = Append(rng, t)
          /\ IF KeyErrorAt(scenarios_data, si, 0, "", "decision_points")
             THEN /\ journey' = HandleException(journey, "KeyError")
                  /\ scenario_result' = None
                  /\ di' = di
                  /\ pc' = "return"
                  /\ history' = [history EXCEPT !.raised = TRUE]
             ELSE /\ scenario_result' =
                        [scenario_id |-> scenarios_data.scenarios[si].id,
                         scenario_name |-> scenarios_data.scenarios[si].name,
                         decisions |-> <<>>,
                         skills_earned |-> <<>>,
                         time_spent_seconds |-> t]
                  /\ di' = 1
                  /\ pc' = IF Len(scenarios_data.scenarios[si].decision_points) >= 1
                           THEN "decision" ELSE "end_scenario"
                  /\ UNCHANGED <<journey, history>>
    /\ UNCHANGED <<personas, idx, si, results, results_file, file_state,
                   scenarios_data>>
    /\ UNCHANGED <<decVars, fbVars, exVars, anVars>>

\* lines 96-111: one turn of the decision loop: scenario_data["context"]
\* (line 99), simulate_decision_point with its random.choice when the
\* extracted label is not offered (line 152), the append to the local
\* scenario_result, chosen_option["skills"] (line 108), the skill loop.
\* An exception leaves simulate_scenario, whose scenario_result is lost,
\* and is caught in simulate_full_journey.
DecisionPoint ==
    /\ pc = "decision"
    /\ LET decision_point == scenarios_data.scenarios[si].decision_points[di]
       IN  IF KeyErrorAt(scenarios_data, si, 0, "", "context")
           THEN /\ journey' = HandleException(journey, "KeyError")
                /\ scenario_result' = None
                /\ pc' = "return"
                /\ di' = di
                /\ rng' = rng
                /\ history' = [history EXCEPT !.raised = TRUE]
           ELSE \E o \in DecisionOutcomes, pick \in 1..Len(decision_point.options) :
             IF o.kind = "raise"
             THEN /\ journey' = HandleException(journey, o.error)
                  /\ scenario_result' = None
                  /\ pc' = "return"
                  /\ di' = di
                  /\ rng' = rng
                  /\ history' = [history EXCEPT
                                    !.raised = TRUE,
                                    !.replies = Append(@, o.kind),
                                    !.prompts = Append(@, decision_point.id)]
             ELSE LET extracted == parse_decision_response(extract_talk_text(o.actions))
                      decision_result == validate_choice(extracted, decision_point, pick)
                      chosen_option == OptionOf(decision_point, decision_result.choice)
                      no_skills == KeyErrorAt(scenarios_data, si, di,
                                              decision_result.choice, "skills")
                      st == IF no_skills
                            THEN [skills |-> journey.final_skills,
                                  earned |-> scenario_result.skills_earned,
                                  raised |-> TRUE]
                            ELSE update_skills(
                                   [skills |-> journey.final_skills,
                                    earned |-> scenario_result.skills_earned,
                                    raised |-> FALSE],
                                   chosen_option.skills)
                  IN  /\ IF HasOption(decision_point, extracted.choice)
                         THEN TRUE ELSE SeedAllows(pick)
                      /\ rng' = IF HasOption(decision_point, extracted.choice)
                                THEN rng ELSE Append(rng, pick)
                      /\ IF st.raised
                         THEN /\ journey' = HandleException(
                                     [journey EXCEPT !.final_skills = st.skills],
                                     "KeyError")
                              /\ scenario_result' = None
                              /\ pc' = "return"
                              /\ di' = di
                              /\ history' = [history EXCEPT
                                                !.raised = TRUE,
                                                !.decisions = Append(@, decision_result),
                                                !.replies = Append(@, o.kind),
                                                !.prompts = Append(@, decision_point.id)]
                         ELSE /\ journey' = [journey EXCEPT !.final_skills = st.skills]
                              /\ scenario_result' =
                                    [scenario_result EXCEPT
                                        !.decisions = Append(@, decision_result),
                                        !.skills_earned = st.earned]
                              /\ di' = di + 1
                              /\ pc' = IF di < Len(scenarios_data.scenarios[si].decision_points)
                                       THEN "decision" ELSE "end_scenario"
                              /\ history' = [history EXCEPT
                                                !.decisions = Append(@, decision_result),
                                                !.replies = Append(@, o.kind),
                                                !.prompts = Append(@, decision_point.id)]
    /\ UNCHANGED <<personas, idx, si, results, results_file, file_state,
                   scenarios_data>>
    /\ UNCHANGED <<decVars, fbVars, exVars, anVars>>

\* Mutant of EndScenario: the loop of line 268 ends after its first turn.
MutEndScenarioLeavesLoop ==
    /\ pc = "end_scenario"
    /\ journey' = [journey EXCEPT !.scenarios = Append(@, scenario_result),
                                  !.completion_status = "completed"]
    /\ si' = si
    /\ pc' = "feedback"
    /\ scenario_result' = None
    /\ UNCHANGED <<personas, idx, di, results, results_file, file_state, rng,
                   scenarios_data, history>>
    /\ UNCHANGED <<decVars, fbVars, exVars, anVars>>

\* Mutant of EndScenario: line 276 is missing, the scenario's record is not
\* appended to the journey.
MutEndScenarioDropsRecord ==
    /\ pc = "end_scenario"
    /\ IF si < Len(scenarios_data.scenarios)
       THEN /\ journey' = journey
            /\ si' = si + 1
            /\ pc' = "scenario"
       ELSE /\ journey' = [journey EXCEPT !.completion_status = "completed"]
            /\ si' = si
            /\ pc' = "feedback"
    /\ scenario_result' = None
    /\ UNCHANGED <<personas, idx, di, results, results_file, file_state, rng,
                   scenarios_data, history>>
    /\ UNCHANGED <<decVars, fbVars, exVars, anVars>>

\* lines 113 and 276-278: simulate_scenario returns, the scenario is
\* appended to the journey; after the last one the status is "completed".
EndScenario ==
    /\ pc = "end_scenario"
    /\ LET j == [journey EXCEPT !.scenarios = Append(@, scenario_result)]
       IN  IF si < Len(scenarios_data.scenarios)
           THEN /\ journey' = j
                /\ si' = si + 1
                /\ pc' = "scenario"
           ELSE /\ journey' = [j EXCEPT !.completion_status = "completed"]
                /\ si' = si
                /\ pc' = "feedback"
    /\ scenario_result' = None
    /\ UNCHANGED <<personas, idx, di, results, results_file, file_state, rng,
                   scenarios_data, history>>
    /\ UNCHANGED <<decVars, fbVars, exVars, anVars>>

\* lines 280-284 with generate_feedback_response (lines 239-243)
GenerateFeedback ==
    /\ pc = "feedback"
    /\ \E o \in FeedbackOutcomes :
          IF o.kind = "raise"
          THEN /\ journey' = HandleException(journey, o.error)
               /\ history' = [history EXCEPT !.raised = TRUE,
                                             !.replies = Append(@, o.kind),
                                             !.prompts = Append(@, "survey")]
          ELSE /\ journey' = [journey EXCEPT !.feedback =
                                 parse_feedback_response(extract_talk_text(o.actions))]
               /\ history' = [history EXCEPT !.replies = Append(@, o.kind),
                                             !.prompts = Append(@, "survey")]
    /\ pc' = "return"
    /\ UNCHANGED <<personas, idx, scenario_result, si, di, results, results_file,
                   file_state, rng, scenarios_data>>
    /\ UNCHANGED <<decVars, fbVars, exVars, anVars>>

\* lines 297 and 314: simulate_full_journey returns the journey and
\* run_simulation appends it to self.results.
AppendJourney ==
    /\ pc = "return"
    /\ results' = Append(results, journey)
    /\ journey' = None
    /\ idx' = idx + 1
    /\ pc' = "loop"
    /\ history' = [history EXCEPT
                      !.log = Append(@, [raised |-> history.raised,
                                         decisions |-> history.decisions,
                                         replies |-> SubSeq(history.replies,
                                                            history.jfrom + 1,
                                                            Len(history.replies))])]
    /\ UNCHANGED <<personas, scenario_result, si, di, results_file, file_state,
                   rng, scenarios_data>>
    /\ UNCHANGED <<decVars, fbVars, exVars, anVars>>

\* lines 316-317 and 328-330 of save_results: after the loop,
\* open(RESULTS_FILE, 'w') creates the file or empties the one that is there.
OpenResultsFile ==
    /\ pc = "loop"
    /\ idx > Len(personas)
    /\ results_file' = <<>>
    /\ file_state' = "truncated"
    /\ pc' = "save"
    /\ UNCHANGED <<personas, idx, journey, scenario_result, si, di, results, rng,
                   scenarios_data, history>>
    /\ UNCHANGED <<decVars, fbVars, exVars, anVars>>

\* Mutant of SaveResults: json.dump is left out, run_simulation returns with
\* the file opened and empty.
MutSaveResultsWritesNothing ==
    /\ pc = "save"
    /\ pc' = "done"
    /\ history' = [history EXCEPT
                      !.calls = Append(@, [roster |-> personas,
                                           replies |-> history.replies,
                                           from |-> history.from,
                                           to |-> Len(rng)])]
    /\ UNCHANGED <<personas, idx, journey, scenario_result, si, di, results,
                   results_file, file_state, rng, scenarios_data>>
    /\ UNCHANGED <<decVars, fbVars, exVars, anVars>>

\* lines 331-333 and 319-324: json.dump writes self.results, the file is
\* closed, run_simulation returns self.results.
SaveResults ==
    /\ pc = "save"
    /\ results_file' = json_dump(PyResults(results))
    /\ file_state' = "complete"
    /\ pc' = "done"
    /\ history' = [history EXCEPT
                      !.calls = Append(@, [roster |-> personas,
                                           replies |-> history.replies,
                                           from |-> history.from,
                                           to |-> Len(rng)])]
    /\ UNCHANGED <<personas, idx, journey, scenario_result, si, di, results, rng,
                   scenarios_data>>
    /\ UNCHANGED <<decVars, fbVars, exVars, anVars>>

Next ==
    \/ RunSimulation
    \/ BeginJourney
    \/ CharacterSelection
    \/ BeginScenario
    \/ DecisionPoint
    \/ EndScenario
    \/ GenerateFeedback
    \/ AppendJourney
    \/ OpenResultsFile
    \/ SaveResults

Spec == Init /\ [][Next]_vars

\* The run is one thread that goes on whenever it can, and every call of the
\* agent returns or raises: weak fairness of its steps.
SpecTermination == Init /\ [][Next]_vars /\ WF_vars(Next)

(***************************************************************************)
(* The simulator in its environment: a catalog file that leaves keys out,  *)
(* a further call of run_simulation on the same instance, a                *)
(* KeyboardInterrupt while an agent call is in flight, and a write of the  *)
(* results file that fails.                                                *)
(***************************************************************************)
\* the catalog files: the one of Catalog, and three that lack one key each
CatalogFiles ==
    { Loaded(Catalog, {}),
      Loaded(Catalog, {MissingKey(2, 0, "", "decision_points")}),
      Loaded(Catalog, {MissingKey(1, 0, "", "context")}),
      Loaded(Catalog, {MissingKey(1, 1, "A", "skills")}) }

InitEnvironment ==
    /\ \E data \in CatalogFiles : SimulatorInit(data)
    /\ DecIdle
    /\ FbIdle
    /\ ExIdle
    /\ AnIdle

\* run_simulation is called again on the same simulator: lines 299-311 run
\* as before, self.results and the generator are as the last call left them.
RunSimulationAgain ==
    /\ pc = "done"
    /\ Len(history.calls) < MaxCalls
    /\ \E n \in 0..MaxLaterRoster :
          personas' = [k \in 1..n |-> k]
    /\ idx' = 1
    /\ pc' = "loop"
    /\ history' = [history EXCEPT !.replies = <<>>, !.from = Len(rng)]
    /\ UNCHANGED <<journey, scenario_result, si, di, results, results_file,
                   file_state, rng, scenarios_data>>
    /\ UNCHANGED <<decVars, fbVars, exVars, anVars>>

\* KeyboardInterrupt while persona.listen_and_act is in flight (lines 58,
\* 146, 239): it is no Exception, the except clause of line 288 does not
\* catch it, it leaves simulate_full_journey and run_simulation; line 317 is
\* not reached.
Interrupt ==
    /\ pc \in {"character", "decision", "feedback"}
    /\ pc' = "interrupted"
    /\ journey' = None
    /\ scenario_result' = None
    /\ UNCHANGED <<personas, idx, si, di, results, results_file, file_state, rng,
                   scenarios_data, history>>
    /\ UNCHANGED <<decVars, fbVars, exVars, anVars>>

\* json.dump raises while it writes (line 331: an OSError of the device, or
\* an interrupt): the with block closes the file as it is and the exception
\* leaves save_results and run_simulation.
WriteFails ==
    /\ pc = "save"
    /\ pc' = "failed"
    /\ UNCHANGED <<personas, idx, journey, scenario_result, si, di, results,
                   results_file, file_state, rng, scenarios_data, history>>
    /\ UNCHANGED <<decVars, fbVars, exVars, anVars>>

NextEnvironment ==
    \/ Next
    \/ RunSimulationAgain
    \/ Interrupt
    \/ WriteFails

SpecEnvironment == InitEnvironment /\ [][NextEnvironment]_vars

(***************************************************************************)
(* The run and the analysis that follows it: SimulationAnalyzer.__init__   *)
(* of analyze_simulation.py loads the results file the run has written.    *)
(***************************************************************************)
\* analyze_simulation.py, lines 21-26: self.results = json.load(f)
LoadResults ==
    /\ pc = "done"
    /\ file_state = "complete"
    /\ an_pc = "off"
    /\ an_results' = json_load(results_file)
    /\ an_pc' = "loaded"
    /\ UNCHANGED <<runVars, decVars, fbVars, exVars>>

NextPersistence ==
    \/ Next
    \/ LoadResults

SpecPersistence == Init /\ [][NextPersistence]_vars

(***************************************************************************)
(* Two runs with the same seed and catalog: when a run has ended, a second *)
(* simulator is constructed on the same catalog file, which seeds the      *)
(* generator again, and is run on the same roster.  The catalog file holds *)
(* the first scenario of the catalog.                                      *)
(***************************************************************************)
InitTwoRuns ==
    /\ SimulatorInit(Loaded(SubSeq(Catalog, 1, 1), {}))
    /\ DecIdle
    /\ FbIdle
    /\ ExIdle
    /\ AnIdle

\* lines 26-32 and 299-311: MVPSimulator(), then run_simulation(personas)
NewSimulator ==
    /\ pc = "done"
    /\ history.prev = None
    /\ results' = <<>>
    /\ rng' = <<>>
    /\ idx' = 1
    /\ pc' = "loop"
    /\ history' = [history EXCEPT
                      !.prev = [results |-> results, log |-> history.log,
                                stream |-> rng],
                      !.log = <<>>, !.replies = <<>>, !.from = 0]
    /\ UNCHANGED <<personas, journey, scenario_result, si, di, results_file,
                   file_state, scenarios_data>>
    /\ UNCHANGED <<decVars, fbVars, exVars, anVars>>

NextTwoRuns ==
    \/ Next
    \/ NewSimulator

SpecTwoRuns == InitTwoRuns /\ [][NextTwoRuns]_vars

(***************************************************************************)
(* The simulator with an agent that may never reply.  The run is one       *)
(* thread that goes on whenever it can: weak fairness of its steps.        *)
(***************************************************************************)
\* persona.listen_and_act does not return (lines 58, 146, 239): the call is
\* synchronous and no timeout is set, the thread stays in it.
AgentHangs ==
    /\ pc \in {"character", "decision", "feedback"}
    /\ pc' = "blocked"
    /\ UNCHANGED <<personas, idx, journey, scenario_result, si, di, results,
                   results_file, file_state, rng, scenarios_data, history>>
    /\ UNCHANGED <<decVars, fbVars, exVars, anVars>>

NextBlocking ==
    \/ Next
    \/ AgentHangs

SpecBlocking == Init /\ [][NextBlocking]_vars /\ WF_vars(NextBlocking)

(***************************************************************************)
(* simulate_decision_point on its own: the response the agent's reply was  *)
(* reduced to (line 147) is parsed (line 148) and validated (150-161),     *)
(* for replies put together from fragments and for several option sets.    *)
(***************************************************************************)
DecisionFragments ==
    { <<"CHOICE:", " ", "A">>,
      <<"CHOICE:", " ", "B">>,
      <<"CHOICE:", "D">>,
      <<"choice:", " ", "d">>,
      <<"CHOICE:", " ", "[">>,
      <<"B", ".">>,
      <<"\n">>,
      <<" ">>,
      <<"x">>,
      <<"REASONING:", " ", "x">> }

\* every text of at most n fragments of F
RECURSIVE Concatenations(_, _)
Concatenations(F, n) ==
    IF n = 0 THEN {<<>>}
    ELSE LET shorter == Concatenations(F, n - 1)
         IN  shorter \cup {t \o f : t \in shorter, f \in F}

DecisionResponses ==
    {Str(t) : t \in Concatenations(DecisionFragments, MaxFragments)}
        \cup {NoneValue, IntValue}

\* the decision points of the catalog, and one whose labels start at B
DecisionPointsUnderTest ==
    CatalogDecisionPoints
    \cup { [id |-> "s3_d1", prompt |-> "p31",
            options |-> << Option("B", "t31B", <<"distraction">>, "f31B"),
                           Option("C", "t31C", <<>>, "f31C") >>] }

InitDecision ==
    /\ RunInit
    /\ FbIdle
    /\ ExIdle
    /\ AnIdle
    /\ dec_response \in DecisionResponses
    /\ dec_point \in DecisionPointsUnderTest
    /\ dec_extracted = None
    /\ dec_result = None
    /\ dec_pc = "parse"

\* line 148
ParseDecision ==
    /\ dec_pc = "parse"
    /\ dec_extracted' = parse_decision_response(dec_response)
    /\ dec_pc' = "validate"
    /\ UNCHANGED <<dec_response, dec_point, dec_result>>
    /\ UNCHANGED <<runVars, fbVars, exVars, anVars>>

\* lines 150-161
ValidateDecision ==
    /\ dec_pc = "validate"
    /\ \E pick \in 1..Len(dec_point.options) :
          dec_result' = validate_choice(dec_extracted, dec_point, pick)
    /\ dec_pc' = "done"
    /\ UNCHANGED <<dec_response, dec_point, dec_extracted>>
    /\ UNCHANGED <<runVars, fbVars, exVars, anVars>>

NextDecision == ParseDecision \/ ValidateDecision

SpecDecision == InitDecision /\ [][NextDecision]_vars

(***************************************************************************)
(* parse_feedback_response on its own, for survey replies put together     *)
(* from fragments.                                                         *)
(***************************************************************************)
SurveyFragments ==
    { <<"Rate:", " ", "4">>,
      <<"Rate:", "1">>,
      <<"rate:", " ", "9">>,
      <<"Rate:">>,
      <<"\n", "2.", "Explain:", " ", "x">> }

SurveyResponses ==
    {Str(t) : t \in Concatenations(SurveyFragments, MaxRateFragments)}
        \cup {NoneValue, IntValue}

InitFeedback ==
    /\ RunInit
    /\ DecIdle
    /\ ExIdle
    /\ AnIdle
    /\ fb_response \in SurveyResponses
    /\ fb_feedback = None
    /\ fb_pc = "parse"

\* lines 59-145
ParseFeedback ==
    /\ fb_pc = "parse"
    /\ fb_feedback' = parse_feedback_response(fb_response)
    /\ fb_pc' = "done"
    /\ UNCHANGED fb_response
    /\ UNCHANGED <<runVars, decVars, exVars, anVars>>

NextFeedback == ParseFeedback

SpecFeedback == InitFeedback /\ [][NextFeedback]_vars

(***************************************************************************)
(* The three extractors of utils.py called on their own, for texts put     *)
(* together from fragments, for None and for a value that is no string.    *)
(***************************************************************************)
CharacterFragments ==
    { <<"CHOICE:", " ", "Sam Rivera">>,
      <<"choice:", " ", "ALEX CHEN">>,
      <<"CHOICE:", " ", "Taylor">>,
      <<"CHOICE:">>,
      <<"Jordan Williams">>,
      <<"\n">>,
      <<" ">>,
      <<"REASONING:", " ", "x">> }

\* the most fragments a character reply is put together from
MaxCharacterFragments == 3

CharacterResponses ==
    {Str(t) : t \in Concatenations(CharacterFragments, MaxCharacterFragments)}
        \cup {NoneValue, IntValue}

\* pieces of survey replies: question numbers with and without their
\* Explain: / Answer: marker
SectionFragments ==
    { <<"1.", " ", "Rate:", " ", "4">>,
      <<"1.", " ", "Explain:", " ", "x">>,
      <<"\n", "2.", " ", "Explain:", " ", "y">>,
      <<"\n", "2.", " ", "Rate:", " ", "5">>,
      <<"\n", "6.", " ", "x">>,
      <<"\n", "7.", " ", "Answer:", " ", "z">>,
      <<"\n", "10.", " ", "Answer:">> }

\* the most fragments such a survey reply is put together from
MaxSectionFragments == 3

SectionResponses ==
    {Str(t) : t \in Concatenations(SectionFragments, MaxSectionFragments)}
        \cup {NoneValue, IntValue}

InitExtractors ==
    /\ RunInit
    /\ DecIdle
    /\ FbIdle
    /\ AnIdle
    /\ \/ ex_fn = "parse_character_selection" /\ ex_response \in CharacterResponses
       \/ ex_fn = "parse_decision_response" /\ ex_response \in DecisionResponses
       \/ ex_fn = "parse_feedback_response" /\ ex_response \in SectionResponses
    /\ ex_result = None
    /\ ex_pc = "call"

\* utils.py lines 8-32
CallParseCharacterSelection ==
    /\ ex_pc = "call"
    /\ ex_fn = "parse_character_selection"
    /\ ex_result' = IF parse_character_selection_raises(ex_response) THEN Raised
                    ELSE parse_character_selection(ex_response)
    /\ ex_pc' = "done"
    /\ UNCHANGED <<ex_fn, ex_response>>
    /\ UNCHANGED <<runVars, decVars, fbVars, anVars>>

\* utils.py lines 34-54
CallParseDecisionResponse ==
    /\ ex_pc = "call"
    /\ ex_fn = "parse_decision_response"
    /\ ex_result' = IF parse_decision_response_raises(ex_response) THEN Raised
                    ELSE parse_decision_response(ex_response)
    /\ ex_pc' = "done"
    /\ UNCHANGED <<ex_fn, ex_response>>
    /\ UNCHANGED <<runVars, decVars, fbVars, anVars>>

\* utils.py lines 56-145
CallParseFeedbackResponse ==
    /\ ex_pc = "call"
    /\ ex_fn = "parse_feedback_response"
    /\ ex_result' = IF parse_feedback_response_raises(ex_response) THEN Raised
                    ELSE parse_feedback_response(ex_response)
    /\ ex_pc' = "done"
    /\ UNCHANGED <<ex_fn, ex_response>>
    /\ UNCHANGED <<runVars, decVars, fbVars, anVars>>

NextExtractors ==
    \/ CallParseCharacterSelection
    \/ CallParseDecisionResponse
    \/ CallParseFeedbackResponse

SpecExtractors == InitExtractors /\ [][NextExtractors]_vars

(***************************************************************************)
(* Properties.                                                             *)
(***************************************************************************)
\* the option labels of a decision point, as a set
LabelSet(decision_point) ==
    {decision_point.options[k].label : k \in 1..Len(decision_point.options)}

\* the decision records of a journey record, scenario by scenario
RECURSIVE AllDecisions(_)
AllDecisions(scenarios) ==
    IF scenarios = <<>> THEN <<>>
    ELSE Head(scenarios).decisions \o AllDecisions(Tail(scenarios))

\* the skill-tags of the option a decision record chose
TagsOfDecision(d) ==
    LET decision_point == CHOOSE x \in CatalogDecisionPoints : x.id = d.decision_id
        tags == OptionOf(decision_point, d.choice).skills
    IN  {tags[m] : m \in 1..Len(tags)}

\* C1: run isolation.  When run_simulation has returned, the result set
\* (also the persisted one) holds one record per participant of the roster,
\* in order, with status "error" for exactly the participants whose journey
\* raised (in character selection, in a scenario or in the survey) and
\* "completed" for all others; and until then the run can always go on.
RunIsolation ==
    /\ pc # "done" => ENABLED Next
    /\ pc = "done" =>
          /\ Len(results) = Len(personas)
          /\ results_file = json_dump(PyResults(results))
          /\ \A k \in 1..Len(personas) :
                /\ results[k].persona_id = personas[k]
                /\ results[k].completion_status =
                      IF history.log[k].raised THEN "error" ELSE "completed"

\* C1 witness: a run of two whose first journey raised and whose second
\* journey completed.
RunIsolationWitness ==
    /\ pc = "done"
    /\ Len(personas) = 2
    /\ history.log[1].raised
    /\ results[1].completion_status = "error"
    /\ ~history.log[2].raised
    /\ results[2].completion_status = "completed"

\* C2 (as claimed): a journey that raised yields one record with status
\* "error" whose scenarios hold every decision record that had been created
\* before the fault.
ErrorRecordKeepsDecisions ==
    \A k \in 1..Len(results) :
        history.log[k].raised =>
            /\ results[k].completion_status = "error"
            /\ AllDecisions(results[k].scenarios) = history.log[k].decisions

\* C3 (as claimed): in every emitted record, final_skills[s] is the number
\* of the record's decisions whose chosen option lists s.
SkillsEqualTagCounts ==
    \A k \in 1..Len(results) :
        \A s \in SkillSet :
            LET ds == AllDecisions(results[k].scenarios)
            IN  results[k].final_skills[s] =
                    Cardinality({n \in 1..Len(ds) : s \in TagsOfDecision(ds[n])})

\* C4: the choice simulate_decision_point stores is one of the decision
\* point's option labels, whatever label was extracted.
ChoiceIsLegal ==
    dec_pc = "done" => dec_result.choice \in LabelSet(dec_point)

\* C4 witness: a label was extracted that the decision point does not offer.
ChoiceIsLegalWitness ==
    /\ dec_pc = "done"
    /\ dec_extracted.choice \notin LabelSet(dec_point)
    /\ dec_result.choice \in LabelSet(dec_point)

\* C5: a legal extracted label is recorded with the extracted reasoning,
\* unchanged; otherwise a legal label is recorded with the fixed reasoning
\* "Default choice due to parsing error".
DecisionResolution ==
    dec_pc = "done" =>
        IF dec_extracted.choice \in LabelSet(dec_point)
        THEN /\ dec_result.choice = dec_extracted.choice
             /\ dec_result.reasoning = dec_extracted.reasoning
        ELSE /\ dec_result.choice \in LabelSet(dec_point)
             /\ dec_result.reasoning = <<"Default choice due to parsing error">>

\* C5 witness: a reply with a reasoning of its own named a label that is not
\* offered, and the record shows the marker instead.
DecisionResolutionWitness ==
    /\ dec_pc = "done"
    /\ dec_extracted.choice \notin LabelSet(dec_point)
    /\ dec_extracted.reasoning = <<"x">>
    /\ dec_result.reasoning = <<"Default choice due to parsing error">>

\* A "CHOICE:" marker (any case) followed, after optional blanks, by a
\* letter of A..D (any case).
HasChoiceLabel(t) ==
    \E k \in 1..Len(t), j \in 1..Len(t) :
        /\ k < j
        /\ t[k] \in {"CHOICE:", "choice:"}
        /\ \A m \in (k + 1)..(j - 1) : t[m] \in {" ", "\n"}
        /\ FirstChar(t[j]) \in {"A", "B", "C", "D", "a", "b", "c", "d"}

\* A line that starts with a label of A..D and a separator.
HasLineStartLabel(t) ==
    \E k \in 1..(Len(t) - 1) :
        /\ k = 1 \/ t[k - 1] = "\n"
        /\ t[k] \in {"A", "B", "C", "D"}
        /\ t[k + 1] \in {".", ")", ":", " ", "\n"}

\* a reply with no recognizable marker: no CHOICE: label, no line-start
\* label; so are the empty reply and a non-string
NoRecognizableMarker(response) ==
    \/ response.type # "str"
    \/ response.toks = <<>>
    \/ ~HasChoiceLabel(response.toks) /\ ~HasLineStartLabel(response.toks)

\* C6 (as claimed): for labels A..D and a reply without a marker the
\* recorded reasoning is the parsing-error marker.
NoMarkerIsSubstituted ==
    (/\ dec_pc = "done"
     /\ LabelSet(dec_point) = {"A", "B", "C", "D"}
     /\ NoRecognizableMarker(dec_response))
        => dec_result.reasoning = <<"Default choice due to parsing error">>

\* C6 (amended): for labels A..D and a reply without a marker the recorded
\* choice is always A, the extractor's default, and the recorded reasoning is
\* the extractor's: the text after REASONING:, or else one of its two
\* defaults.  Nothing is substituted.
NoMarkerIsChoiceA ==
    (/\ dec_pc = "done"
     /\ LabelSet(dec_point) = {"A", "B", "C", "D"}
     /\ NoRecognizableMarker(dec_response))
        => /\ dec_result.choice = "A"
           /\ dec_result.reasoning = dec_extracted.reasoning
           /\ (\A k \in 1..Len(dec_response.toks) :
                   dec_response.toks[k] \notin {"REASONING:", "reasoning:"})
                => dec_result.reasoning \in
                       { <<"Default reasoning">>,
                         <<"Default choice due to invalid response">> }

\* C6 witness: a non-empty reply without a marker at a decision point with
\* the labels A..D.
NoMarkerIsChoiceAWitness ==
    /\ dec_pc = "done"
    /\ LabelSet(dec_point) = {"A", "B", "C", "D"}
    /\ dec_response.type = "str"
    /\ dec_response.toks # <<>>
    /\ NoRecognizableMarker(dec_response)
    /\ dec_result.choice = "A"
    /\ dec_result.reasoning = <<"Default reasoning">>

\* The reply holds the marker "CHOICE: X" as the prompt asks for it: at the
\* start of a line the upper-case marker, one blank, the label X, then a
\* blank or the end; and it holds no other upper-case "CHOICE:".
WellFormedChoice(t, X) ==
    /\ \E k \in 1..(Len(t) - 2) :
          /\ k = 1 \/ t[k - 1] = "\n"
          /\ t[k] = "CHOICE:"
          /\ t[k + 1] = " "
          /\ t[k + 2] = X
          /\ k + 2 = Len(t) \/ t[k + 3] \in {" ", "\n"}
    /\ Cardinality({k \in 1..Len(t) : t[k] = "CHOICE:"}) = 1

\* C7 (as claimed): a reply that holds a well-formed "CHOICE: X" with X a
\* legal label is parsed to X, whatever text surrounds the marker.
WellFormedChoiceIsExtracted ==
    (dec_pc # "parse" /\ dec_response.type = "str") =>
        \A X \in LabelSet(dec_point) :
            WellFormedChoice(dec_response.toks, X) => dec_extracted.choice = X

RateMatchPositions(t) ==
    {k \in 1..Len(t) :
        /\ t[k] \in {"Rate:", "rate:"}
        /\ \E j \in (k + 1)..Len(t) :
              /\ \A m \in (k + 1)..(j - 1) : t[m] \in {" ", "\n"}
              /\ FirstChar(t[j]) \in {"0", "1", "2", "3", "4", "5", "6", "7", "8", "9"}}

\* the digit matched with the marker at k
DigitAfter(t, k) ==
    FirstChar(t[CHOOSE j \in (k + 1)..Len(t) :
                  /\ \A m \in (k + 1)..(j - 1) : t[m] \in {" ", "\n"}
                  /\ t[j] \notin {" ", "\n"}])

\* the n-th least element of a set of indices
NthPosition(P, n) == CHOOSE p \in P : Cardinality({q \in P : q < p}) = n - 1

RatingsOf(f) ==
    <<f.realistic, f.felt_safe, f.helpful_feedback, f.would_recommend, f.confidence>>

\* the text parse_feedback_response scans: none for an invalid response
ScannedText(response) ==
    IF response.type = "str" THEN response.toks ELSE <<>>

\* C9: the ratings are all-or-nothing.  With fewer than five "Rate: <digit>"
\* matches all five ratings are 3; with five or more, the ratings are the
\* first five matched digits, in order.
RatingsAllOrNothing ==
    fb_pc = "done" =>
        LET t == ScannedText(fb_response)
            P == RateMatchPositions(t)
        IN  IF Cardinality(P) < 5
            THEN RatingsOf(fb_feedback) = <<3, 3, 3, 3, 3>>
            ELSE \A n \in 1..5 :
                    RatingsOf(fb_feedback)[n] =
                        DigitValue(DigitAfter(t, NthPosition(P, n)))

\* C9 witness: a reply with more than five matches whose first two digits
\* differ.
RatingsAllOrNothingWitness ==
    /\ fb_pc = "done"
    /\ Cardinality(RateMatchPositions(ScannedText(fb_response))) > 5
    /\ fb_feedback.realistic # fb_feedback.felt_safe

\* C10 (as claimed): each of the five ratings is an integer in 1..5.
RatingsInDomain ==
    fb_pc = "done" =>
        \A n \in 1..5 : RatingsOf(fb_feedback)[n] \in 1..5

\* the names of the fixed roster, each as a text
RosterTexts == {<<RosterNames[n]>> : n \in 1..Len(RosterNames)}

\* the text holds a lexeme that is a roster name, in any case
MentionsRosterName(t) ==
    \E k \in 1..Len(t) :
        t[k] \in {"Alex Chen", "ALEX CHEN", "Jordan Williams", "Sam Rivera"}

\* C11 (as claimed): for every reply, parse_character_selection returns a
\* name of the fixed roster, and "Alex Chen" when the reply names none.
CharacterIsRosterName ==
    (/\ ex_pc = "done"
     /\ ex_fn = "parse_character_selection"
     /\ ex_result # Raised)
        => /\ ex_result.character \in RosterTexts
           /\ (ex_response.type = "str" /\ ~MentionsRosterName(ex_response.toks))
                 => ex_result.character = <<"Alex Chen">>

\* C12: every extractor is total.  No call raises, for a text, for None,
\* for the empty string and for a value that is no string; and for an input
\* that is no text, or an empty one, the result is the structure of defaults.
ExtractorsAreTotal ==
    ex_pc = "done" =>
        /\ ex_result # Raised
        /\ (ex_response.type # "str" \/ ex_response.toks = <<>>) =>
              CASE ex_fn = "parse_character_selection" ->
                      ex_result = [character |-> <<"Alex Chen">>,
                                   reasoning |->
                                     <<"Default selection due to invalid response">>]
                [] ex_fn = "parse_decision_response" ->
                      ex_result = [choice |-> "A",
                                   reasoning |->
                                     <<"Default choice due to invalid response">>]
                [] OTHER ->
                      /\ RatingsOf(ex_result) = <<3, 3, 3, 3, 3>>
                      /\ ex_result.realistic_explain = <<>>
                      /\ ex_result.cultural_relevance = <<>>
                      /\ ex_result.raw_response =
                            IF ex_response.type = "int" THEN <<"7">> ELSE <<>>

\* C12 witness: parse_feedback_response was called with a value that is no
\* string and returned the defaults.
ExtractorsAreTotalWitness ==
    /\ ex_pc = "done"
    /\ ex_fn = "parse_feedback_response"
    /\ ex_response = IntValue
    /\ ex_result # Raised
    /\ ex_result.confidence = 3

\* the field of the survey record that belongs to question q
FieldOfQuestion(f, q) ==
    CASE q = "1." -> f.realistic_explain
      [] q = "2." -> f.felt_safe_explain
      [] q = "3." -> f.helpful_feedback_explain
      [] q = "4." -> f.would_recommend_explain
      [] q = "5." -> f.confidence_explain
      [] q = "6." -> f.most_valuable_scenario
      [] q = "7." -> f.likely_strategy
      [] q = "8." -> f.what_worked
      [] q = "9." -> f.improvements
      [] OTHER -> f.cultural_relevance

QuestionNumbers == {"1.", "2.", "3.", "4.", "5.", "6.", "7.", "8.", "9.", "10."}

\* Question q's own section holds an Explain: or Answer: marker: after some
\* occurrence of q and before the next question number.
OwnSectionHasMarker(t, q) ==
    \E p \in 1..Len(t), m \in 1..Len(t) :
        /\ t[p] = q
        /\ p < m
        /\ t[m] \in {"Explain:", "Answer:"}
        /\ \A n \in (p + 1)..(m - 1) : t[n] \notin QuestionNumbers

\* C13 (as claimed): the text fields are extracted per question.  When
\* question q's own section holds no Explain: / Answer: marker, field q is
\* the empty string, whatever the other sections hold.
FieldsArePerQuestion ==
    (/\ ex_pc = "done"
     /\ ex_fn = "parse_feedback_response"
     /\ ex_response.type = "str"
     /\ ex_result # Raised)
        => \A q \in QuestionNumbers :
              ~OwnSectionHasMarker(ex_response.toks, q)
                 => FieldOfQuestion(ex_result, q) = <<>>

\* C14 (as claimed): no terminal state reopens.  Once a journey's status is
\* "completed" or "error", no field of its record changes: the journey dict
\* stays as it is until it is appended to the results, and the records in
\* the results stay as they are.
TerminalRecordIsImmutable ==
    [][/\ (journey # None /\ journey.completion_status \in {"completed", "error"})
           => \/ journey' = journey
              \/ journey' = None /\ results' = Append(results, journey)
       /\ \A k \in 1..Len(results) :
              Len(results') >= k /\ results'[k] = results[k]]_vars

\* C15 (as claimed): a catalog that leaves out a key ("decision_points" or
\* "context" of a scenario, "skills" of an option) is a fatal error at
\* startup, the run aborts before any participant is processed; so no
\* journey record comes to hold the KeyError of the missing key.
CatalogFaultIsFatal ==
    scenarios_data.missing # {} =>
        \A k \in 1..Len(results) :
            ~(results[k].completion_status = "error" /\ results[k].error = "KeyError")

\* C16 (as claimed): persistence is an atomic replace.  At every point the
\* results file is absent or holds a whole result set, never an empty or
\* partly written document.
ResultsFileIsAtomic ==
    /\ file_state \in {"absent", "complete"}
    /\ file_state = "complete" =>
          \E n \in 0..Len(results) :
              results_file = json_dump(PyResults(SubSeq(results, 1, n)))

\* C17 (as claimed): when a run is interrupted after some journeys reached
\* a terminal status, their records are persisted in the results file.
InterruptedRunIsPersisted ==
    (pc = "interrupted" /\ results # <<>>)
        => /\ file_state = "complete"
           /\ results_file = json_dump(PyResults(results))

\* C18 (as claimed): when a call of run_simulation has returned, also a
\* second one on the same simulator, the result set that is persisted and
\* returned holds one record per participant of that call's roster, in
\* roster order.
ResultSetIsRoster ==
    pc = "done" =>
        /\ results_file = json_dump(PyResults(results))
        /\ Len(results) = Len(personas)
        /\ \A k \in 1..Len(results) :
              k <= Len(personas) /\ results[k].persona_id = personas[k]

\* the values a finished call of run_simulation drew from the generator
DrawsOfCall(c) == SubSeq(rng, c.from + 1, c.to)

\* C19 (as claimed): any two calls of run_simulation with the same catalog,
\* the same roster and the same agent replies draw the same values
\* (substituted choices and scenario durations).
RunsAreReproducible ==
    \A a \in 1..Len(history.calls), b \in 1..Len(history.calls) :
        (/\ history.calls[a].roster = history.calls[b].roster
         /\ history.calls[a].replies = history.calls[b].replies)
            => DrawsOfCall(history.calls[a]) = DrawsOfCall(history.calls[b])

\* C20 (as claimed): when the agent never replies to a prompt, the blocked
\* journey eventually ends with status "error" and is returned to the run.
AgentHangEndsInError ==
    (pc = "blocked") ~> (pc = "return" /\ journey.completion_status = "error")

\* the run has ended: every participant of the roster has a record with a
\* terminal status and the results file holds the result set
RunEnded ==
    /\ pc = "done"
    /\ Len(results) = Len(personas)
    /\ \A k \in 1..Len(results) :
          results[k].completion_status \in {"completed", "error"}
    /\ file_state = "complete"
    /\ results_file = json_dump(PyResults(results))

\* C21: when every call of the agent returns or raises, a run that was
\* started ends: every participant has status completed or error and the
\* result set is persisted.
RunTerminates == (pc = "loop") ~> RunEnded

\* a run over a full roster has ended, one journey completed and one in error
RunTerminatesWitness ==
    /\ RunEnded
    /\ Len(results) >= 2
    /\ \E k \in 1..Len(results) : results[k].completion_status = "completed"
    /\ \E k \in 1..Len(results) : results[k].completion_status = "error"

\* C22: within one journey every value of final_skills is a non-negative
\* integer, and no step of the journey makes one smaller.
FinalSkillsNeverDecrease ==
    /\ [](journey # None =>
             \A sk \in DOMAIN journey.final_skills :
                 journey.final_skills[sk] \in Nat)
    /\ [][(journey # None /\ journey' # None) =>
             /\ DOMAIN journey'.final_skills = DOMAIN journey.final_skills
             /\ \A sk \in DOMAIN journey.final_skills :
                   journey'.final_skills[sk] >= journey.final_skills[sk]]_vars

\* a journey in which one skill was counted twice and another not at all
FinalSkillsNeverDecreaseWitness ==
    /\ journey # None
    /\ \E sk \in DOMAIN journey.final_skills : journey.final_skills[sk] >= 2
    /\ \E sk \in DOMAIN journey.final_skills : journey.final_skills[sk] = 0

\* C23: a result set of N journeys written by save_results and loaded back
\* is N journeys in the same order, with identical values for every field.
ResultsRoundTrip ==
    an_pc = "loaded" =>
        /\ Len(an_results.v) = Len(results)
        /\ an_results = PyResults(results)

\* a result set of a completed journey and a journey in error was loaded
ResultsRoundTripWitness ==
    /\ an_pc = "loaded"
    /\ Len(an_results.v) >= 2
    /\ \E k \in 1..Len(results) : results[k].completion_status = "completed"
    /\ \E k \in 1..Len(results) : results[k].completion_status = "error"

\* the identifiers of the decision points of the scenarios from the a-th on
RECURSIVE DecisionIdsFrom(_, _)
DecisionIdsFrom(scenarios, a) ==
    IF a > Len(scenarios) THEN <<>>
    ELSE [b \in 1..Len(scenarios[a].decision_points) |->
              scenarios[a].decision_points[b].id]
         \o DecisionIdsFrom(scenarios, a + 1)

\* the prompts of a whole journey, in the order of section 4.3
PromptsOfJourney ==
    <<"character">> \o DecisionIdsFrom(Catalog, 1) \o <<"survey">>

IsPrefix(p, q) == Len(p) <= Len(q) /\ p = SubSeq(q, 1, Len(p))

\* C24: the prompts a journey issues are, as far as the journey goes, the
\* character prompt, then one decision prompt per decision point, scenario
\* by scenario in catalog order, then the survey prompt; none is issued
\* twice, and the survey is prompted when every decision point is resolved.
JourneyOrdering ==
    /\ IsPrefix(history.prompts, PromptsOfJourney)
    /\ pc = "feedback" =>
          history.prompts = SubSeq(PromptsOfJourney, 1, Len(PromptsOfJourney) - 1)

\* a journey that has issued every prompt
JourneyOrderingWitness ==
    /\ pc = "return"
    /\ history.prompts = PromptsOfJourney
    /\ Len(PromptsOfJourney) >= 5

\* the journey record covers the catalog: one scenario record per scenario,
\* in catalog order, each with one decision record per decision point of
\* its scenario, in the scenario's order
CoversCatalog(j) ==
    /\ Len(j.scenarios) = Len(Catalog)
    /\ \A a \in 1..Len(Catalog) :
          /\ j.scenarios[a].scenario_id = Catalog[a].id
          /\ j.scenarios[a].scenario_name = Catalog[a].name
          /\ Len(j.scenarios[a].decisions) = Len(Catalog[a].decision_points)
          /\ \A b \in 1..Len(Catalog[a].decision_points) :
                j.scenarios[a].decisions[b].decision_id =
                    Catalog[a].decision_points[b].id

\* C25: every journey record with status "completed", in the result set or
\* still in the journey engine, covers the catalog.
CompletedCoversCatalog ==
    /\ \A k \in 1..Len(results) :
          results[k].completion_status = "completed" => CoversCatalog(results[k])
    /\ (journey # None /\ journey.completion_status = "completed")
          => CoversCatalog(journey)

\* the result set holds a completed journey next to one that ended in
\* error after its first scenario
CompletedCoversCatalogWitness ==
    /\ \E k \in 1..Len(results) : results[k].completion_status = "completed"
    /\ \E k \in 1..Len(results) :
          /\ results[k].completion_status = "error"
          /\ Len(results[k].scenarios) = 1

\* C26 (as claimed): a scenario's duration is drawn from the generator by a
\* step taken when every decision point of the scenario has been resolved,
\* so after the scenario's substitution draws, and lies in 180..420.
DurationDrawnAfterDecisions ==
    [][(Len(rng') = Len(rng) + 1 /\ rng'[Len(rng')] \in DurationRange)
          => pc = "end_scenario"]_vars

\* the agent's replies to every participant but the i-th are the same in
\* the run that has ended and in the earlier run with the same seed
RunsDifferOnlyAt(i) ==
    \A k \in 1..Len(personas) :
        k # i => history.log[k].replies = history.prev.log[k].replies

\* C27 (as claimed): of two runs with the same seed, catalog and roster that
\* differ only in the agent's replies to participant i, the journey record of
\* every other participant is the same in both.
NonInterference ==
    (pc = "done" /\ history.prev # None) =>
        \A i \in 1..Len(personas) :
            RunsDifferOnlyAt(i) =>
                \A j \in 1..Len(personas) :
                    j # i => results[j] = history.prev.results[j]

\* C28: every record of the result set has status "completed" or "error";
\* it is "completed" exactly when the survey is attached and every scenario
\* of the catalog is recorded, and "error" exactly when it carries an error
\* description.
StatusMatchesRecord ==
    \A k \in 1..Len(results) :
        /\ results[k].completion_status \in {"completed", "error"}
        /\ results[k].completion_status = "completed"
              <=> (/\ results[k].feedback # EmptyDict
                   /\ Len(results[k].scenarios) = Len(Catalog))
        /\ results[k].completion_status = "error"
              <=> results[k].error # NoError

\* the result set holds a completed journey and one whose survey failed
\* after every scenario was recorded
StatusMatchesRecordWitness ==
    /\ \E k \in 1..Len(results) : results[k].completion_status = "completed"
    /\ \E k \in 1..Len(results) :
          /\ results[k].completion_status = "error"
          /\ Len(results[k].scenarios) = Len(Catalog)

\* C29: in every decision record, choice_text and feedback_received are the
\* text and the feedback of the option whose label is the recorded choice,
\* at the decision point that decision_id names; also for a substituted
\* choice.
RecordCopiesOption ==
    dec_pc = "done" =>
        /\ dec_result.decision_id = dec_point.id
        /\ \A dp \in DecisionPointsUnderTest :
              dp.id = dec_result.decision_id =>
                  \E k \in 1..Len(dp.options) :
                      /\ dp.options[k].label = dec_result.choice
                      /\ dp.options[k].text = dec_result.choice_text
                      /\ dp.options[k].feedback = dec_result.feedback_received

\* a decision record whose choice was substituted and is not the first
\* option of its decision point
RecordCopiesOptionWitness ==
    /\ dec_pc = "done"
    /\ ~HasOption(dec_point, dec_extracted.choice)
    /\ dec_result.reasoning = ParsingErrorMarker
    /\ dec_result.choice = dec_point.options[2].label
    /\ dec_result.choice_text = dec_point.options[2].text

\* the journey chose an option that lists a skill-tag SKILLS does not hold
ChoseUnknownSkill(decisions) ==
    \E n \in 1..Len(decisions) : ~(TagsOfDecision(decisions[n]) \subseteq SkillSet)

\* C30: when a chosen option lists a skill-tag that is not in SKILLS, the
\* journey ends with status "error" and the run goes on to the end of the
\* roster; final_skills of every record has the configured skill names as
\* its keys and no other.
UnknownSkillIsJourneyError ==
    /\ pc = "done" => Len(results) = Len(personas)
    /\ \A k \in 1..Len(results) :
          /\ DOMAIN results[k].final_skills = SkillSet
          /\ ChoseUnknownSkill(history.log[k].decisions) =>
                /\ results[k].completion_status = "error"
                /\ results[k].error = "KeyError"

\* the first participant chose an option with an unknown skill-tag, after a
\* known tag of the same option was counted; the second one's journey ended
UnknownSkillIsJourneyErrorWitness ==
    /\ Len(results) >= 2
    /\ ChoseUnknownSkill(history.log[1].decisions)
    /\ results[1].final_skills["know_resources"] = 1
    /\ results[2].completion_status = "completed"

====
